---- MODULE Spec2Model ----
(***************************************************************************)
(* A model of FastCGIStream (src/index.js): a stream that chops a sequence *)
(* of byte chunks on FastCGI record boundaries and releases the records to *)
(* a consumer under pause/resume flow control.                             *)
(*                                                                         *)
(* A byte is a natural number 0..255, a chunk (Buffer) is a sequence of    *)
(* bytes.  The producer's bytes are the concatenation of the records of    *)
(* `input`; each write()/end() call hands over nothing, an empty chunk or  *)
(* the next bytes of it: up to a cut inside a header, after a header or    *)
(* after a record in Spec, and of any length in SpecChunks.  The consumer  *)
(* is the listener of the 'data', 'end' and 'error' events; `events` is    *)
(* the list of what it has been sent.  Inside a 'data' delivery the        *)
(* consumer may call pause() (input pauseAt).  The consumer listens for    *)
(* 'error', so that emit('error') does not raise.                          *)
(***************************************************************************)
EXTENDS Integers, Sequences, FiniteSets, TLC

VARIABLES
    readable,       \* self.readable
    writable,       \* self.writable
    is_ending,      \* self.is_ending
    is_sending,     \* self.is_sending
    is_dead,        \* self.is_dead (undefined, i.e. falsy, until destroy())
    pending_data,   \* self.pending_data: sequence of chunks
    records,        \* self.records: sequence of completed records
    source,         \* self.source: "null" or a producer
    pipe_handler,   \* which 'pipe' listener is installed: "once" or "on"
    source_call,    \* the last method this stream called on its source
    events,         \* what the consumer has been sent, in order
    input,          \* the records the producer sends, in wire order
    pos,            \* number of bytes of the input handed over so far
    hist,           \* sizes of the chunks written, while `fresh`
    fresh,          \* only non-empty write(chunk) calls so far, never paused
    end_called,     \* end() has been called
    last            \* the last public call: its name, result and exception

vars == <<readable, writable, is_ending, is_sending, is_dead, pending_data,
          records, source, pipe_handler, source_call, events, input, pos,
          hist, fresh, end_called, last>>

----------------------------------------------------------------------------
(* Bounds of the model *)

MaxRecs == 2        \* records in the producer's input
MaxSignals == 2     \* 'end' and 'error' signals that the calls may lead to
MaxPending == 2     \* pending chunks beyond which no empty chunk is written

----------------------------------------------------------------------------
(* Wire format *)

HeaderLen == 8

RECURSIVE Flatten(_)
Flatten(ss) == IF ss = <<>> THEN <<>> ELSE Head(ss) \o Flatten(Tail(ss))

\* A record as the producer serializes it: header, payload, padding.
MkRecord(type, body, pad) ==
    <<1, type, 0, type, Len(body) \div 256, Len(body) % 256, Len(pad), 0>>
        \o body \o pad

RecordSet ==
    { MkRecord(1, <<>>, <<>>),
      MkRecord(3, <<31>>, <<0>>) }

\* The producer's inputs: MaxRecs records, two different ones in turn.  A
\* shorter input is a prefix of one of them, since the producer may stop
\* anywhere.
Inputs ==
    { f \in [1..MaxRecs -> RecordSet] :
        \A i \in 1..(MaxRecs - 1) : f[i] /= f[i + 1] }

Producers == {"p1", "p2"}

\* p1 exposes pause, resume and destroy; p2 exposes none of them.
HasMethod(src, m) == src = "p1" /\ m \in {"pause", "resume", "destroy"}

Tape == Flatten(input)

----------------------------------------------------------------------------
(* The instance as a value, so that the methods compose as in the code.    *)
(* Two fields follow one call: `thrown`, the exception raised in it, and   *)
(* `paused_in`, the number of records delivered when the consumer called   *)
(* pause() inside a delivery of it (0: it did not).                        *)

Self ==
    [readable |-> readable, writable |-> writable, is_ending |-> is_ending,
     is_sending |-> is_sending, is_dead |-> is_dead,
     pending_data |-> pending_data, records |-> records, source |-> source,
     pipe_handler |-> pipe_handler, source_call |-> source_call,
     events |-> events, thrown |-> "none", paused_in |-> 0]

DataEvent(rec) == [ev |-> "data", rec |-> rec, src |-> "null"]
EndEvent == [ev |-> "end", rec |-> <<>>, src |-> "null"]
ErrorEvent(src) == [ev |-> "error", rec |-> <<>>, src |-> src]

\* The records delivered, and the number of events of one kind.
RECURSIVE Delivered(_)
Delivered(evs) ==
    IF evs = <<>> THEN <<>>
    ELSE IF Head(evs).ev = "data"
         THEN <<Head(evs).rec>> \o Delivered(Tail(evs))
         ELSE Delivered(Tail(evs))

Count(evs, kind) == Cardinality({i \in 1..Len(evs) : evs[i].ev = kind})

get_header_pad_from_reserved(chunk) ==
    [version  |-> chunk[1],
     type     |-> chunk[2],
     req_id   |-> 256 * chunk[3] + chunk[4],
     body_len |-> 256 * chunk[5] + chunk[6],
     pad_len  |-> chunk[8],
     reserved |-> chunk[8]]

get_header(chunk) ==
    [version  |-> chunk[1],
     type     |-> chunk[2],
     req_id   |-> 256 * chunk[3] + chunk[4],
     body_len |-> 256 * chunk[5] + chunk[6],
     pad_len  |-> chunk[7],
     reserved |-> chunk[8]]

\* The reads of get_header lie within the chunk; beyond it readUInt8 and
\* readUInt16BE raise.
HeaderReadable(chunk) == Len(chunk) >= HeaderLen

pause_keeps_sending(self) ==
    [self EXCEPT !.source_call = IF self.source /= "null"
                                    /\ HasMethod(self.source, "pause")
                                 THEN "pause" ELSE @]

pause(self) ==
    [self EXCEPT !.is_sending = FALSE,
                 !.source_call = IF self.source /= "null"
                                    /\ HasMethod(self.source, "pause")
                                 THEN "pause" ELSE @]

\* The condition under which emit_records signals the end of the stream.
EndConditionNoGate(self) == self.is_ending /\ Len(self.records) = 0

EndCondition(self) ==
    self.is_sending /\ self.is_ending /\ Len(self.records) = 0

\* The condition of the delivery loop of emit_records.
DrainConditionNoGate(self) == Len(self.records) > 0

DrainCondition(self) == self.is_sending /\ Len(self.records) > 0

\* records.shift() of emit_records: the record taken and the rest.
ShiftLast(recs) ==
    [record |-> recs[Len(recs)], rest |-> SubSeq(recs, 1, Len(recs) - 1)]

Shift(recs) == [record |-> Head(recs), rest |-> Tail(recs)]

\* The delivery loop; the consumer calls pause() inside the pauseAt-th
\* delivery of this loop (never if pauseAt is not reached).
RECURSIVE drain(_, _)
drain(self, pauseAt) ==
    IF DrainCondition(self)
    THEN LET sh == Shift(self.records)
             s1 == [self EXCEPT !.records = sh.rest,
                                !.events = Append(@, DataEvent(sh.record))]
             s2 == IF pauseAt = 1
                   THEN [pause(s1) EXCEPT
                            !.paused_in = Count(s1.events, "data")]
                   ELSE s1
         IN  drain(s2, pauseAt - 1)
    ELSE self

emit_records(self, pauseAt) ==
    LET s == drain(self, pauseAt)
    IN  IF EndCondition(s)
        THEN [s EXCEPT !.is_ending = FALSE,
                       !.readable = FALSE,
                       !.events = Append(@, EndEvent)]
        ELSE s

\* The merge loop at the head of build_record.
RECURSIVE MergeSwapped(_)
MergeSwapped(pd) ==
    IF Len(pd) > 1 /\ Len(pd[1]) < HeaderLen
    THEN MergeSwapped(<<pd[2] \o pd[1]>> \o SubSeq(pd, 3, Len(pd)))
    ELSE pd

MergeNone(pd) == pd

RECURSIVE Merge(_)
Merge(pd) ==
    IF Len(pd) > 1 /\ Len(pd[1]) < HeaderLen
    THEN Merge(<<pd[1] \o pd[2]>> \o SubSeq(pd, 3, Len(pd)))
    ELSE pd

RECURSIVE PendingBytes(_)
PendingBytes(pd) ==
    IF pd = <<>> THEN 0 ELSE Len(Head(pd)) + PendingBytes(Tail(pd))

RecordBytesNoPadding(header) == HeaderLen + header.body_len

RecordBytes(header) == HeaderLen + header.body_len + header.pad_len

\* The copy loop of build_record: `needed` bytes are still to be copied into
\* the record `acc` from the chunks `pd`.
RECURSIVE CopyLoopSliceOffByOne(_, _, _)
CopyLoopSliceOffByOne(pd, needed, acc) ==
    IF needed > 0
    THEN LET next_chunk == Head(pd)
         IN  IF Len(next_chunk) <= needed
             THEN CopyLoopSliceOffByOne(Tail(pd), needed - Len(next_chunk),
                                        acc \o next_chunk)
             ELSE CopyLoopSliceOffByOne(
                      <<SubSeq(next_chunk, needed + 2, Len(next_chunk))>>
                          \o Tail(pd),
                      0, acc \o SubSeq(next_chunk, 1, needed))
    ELSE [record |-> acc, pending_data |-> pd]

RECURSIVE CopyLoop(_, _, _)
CopyLoop(pd, needed, acc) ==
    IF needed > 0
    THEN LET next_chunk == Head(pd)
         IN  IF Len(next_chunk) <= needed
             THEN CopyLoop(Tail(pd), needed - Len(next_chunk),
                           acc \o next_chunk)
             ELSE CopyLoop(<<SubSeq(next_chunk, needed + 1, Len(next_chunk))>>
                               \o Tail(pd),
                           0, acc \o SubSeq(next_chunk, 1, needed))
    ELSE [record |-> acc, pending_data |-> pd]

RECURSIVE build_record(_, _)
build_record(self, pauseAt) ==
    LET merged == Merge(self.pending_data)
        s1 == [self EXCEPT !.pending_data = merged]
        pending_bytes == PendingBytes(merged)
    IN  IF pending_bytes < HeaderLen
        THEN emit_records(s1, pauseAt)
        ELSE IF ~HeaderReadable(merged[1])
        THEN [s1 EXCEPT !.thrown = "RangeError"]
        ELSE LET header == get_header(merged[1])
                 record_bytes == RecordBytes(header)
             IN  IF pending_bytes < record_bytes
                 THEN emit_records(s1, pauseAt)
                 ELSE LET c == CopyLoop(merged, record_bytes, <<>>)
                      IN  build_record(
                              [s1 EXCEPT !.pending_data = c.pending_data,
                                         !.records = Append(@, c.record)],
                              pauseAt)

\* A chunk argument: absent (undefined) or a Buffer, which is truthy even
\* when it is empty.
Absent == [present |-> FALSE, bytes |-> <<>>]
Chunk(bytes) == [present |-> TRUE, bytes |-> bytes]

\* The value write() returns.
WriteResult(self) == ~self.is_ending

write(self, data, pauseAt) ==
    LET s1 == IF data.present
              THEN [self EXCEPT !.pending_data = Append(@, data.bytes)]
              ELSE self
    IN  build_record(s1, pauseAt)

resume_no_drain(self, pauseAt) ==
    [self EXCEPT !.is_sending = TRUE,
                 !.source_call = IF self.source /= "null"
                                    /\ HasMethod(self.source, "resume")
                                 THEN "resume" ELSE @]

resume(self, pauseAt) ==
    LET s1 == [self EXCEPT !.is_sending = TRUE,
                           !.source_call = IF self.source /= "null"
                                              /\ HasMethod(self.source, "resume")
                                           THEN "resume" ELSE @]
    IN  emit_records(s1, pauseAt)

end_no_write_without_data(self, data, pauseAt) ==
    LET s1 == [self EXCEPT !.is_ending = TRUE, !.writable = FALSE]
    IN  IF data.present THEN write(s1, data, pauseAt) ELSE s1

end(self, data, pauseAt) ==
    write([self EXCEPT !.is_ending = TRUE, !.writable = FALSE], data, pauseAt)

\* What end() raises after its write: `self` is not defined in its scope.
EndThrows(self) == Len(self.pending_data) > 0

\* The exception a write() or an end() call ends with, if any.
WriteThrown(s) == s.thrown

EndThrown(s) ==
    IF s.thrown /= "none" THEN s.thrown
    ELSE IF EndThrows(s) THEN "ReferenceError" ELSE "none"

destroy(self) ==
    [self EXCEPT !.is_dead = TRUE,
                 !.is_ending = FALSE,
                 !.is_sending = FALSE,
                 !.source_call = IF self.source /= "null"
                                    /\ HasMethod(self.source, "destroy")
                                 THEN "destroy" ELSE @]

error(self, er) ==
    [self EXCEPT !.readable = FALSE,
                 !.writable = FALSE,
                 !.events = Append(@, er)]

\* The 'pipe' listeners of the constructor.
on_pipe_rebind(self, src) ==
    IF self.pipe_handler = "once"
    THEN [self EXCEPT !.source = src, !.pipe_handler = "on"]
    ELSE error([self EXCEPT !.source = src], ErrorEvent(src))

on_pipe(self, src) ==
    IF self.pipe_handler = "once"
    THEN [self EXCEPT !.source = src, !.pipe_handler = "on"]
    ELSE error(self, ErrorEvent(self.source))

----------------------------------------------------------------------------
(* The state machine *)

\* The 'end' and 'error' signals sent so far, and the 'end' that is due.
Signals ==
    Count(events, "end") + Count(events, "error")
        + (IF is_ending THEN 1 ELSE 0)

Commit(s) ==
    /\ readable' = s.readable
    /\ writable' = s.writable
    /\ is_ending' = s.is_ending
    /\ is_sending' = s.is_sending
    /\ is_dead' = s.is_dead
    /\ pending_data' = s.pending_data
    /\ records' = s.records
    /\ source' = s.source
    /\ pipe_handler' = s.pipe_handler
    /\ source_call' = s.source_call
    /\ events' = s.events

\* The record of a public call that leads to s: its name, its producer
\* argument (pipe), the value it returned (write), the exception it raised,
\* the number of records it delivered, and the delivery in which the consumer
\* called pause() (0: in none).
Call(op, arg, ret, thrown, s) ==
    [op |-> op, arg |-> arg, ret |-> ret, thrown |-> thrown,
     delivered |-> Count(s.events, "data") - Count(events, "data"),
     paused_at |-> IF s.paused_in = 0 THEN 0
                   ELSE s.paused_in - Count(events, "data")]

Init ==
    /\ readable = TRUE
    /\ writable = TRUE
    /\ is_ending = FALSE
    /\ is_sending = TRUE
    /\ is_dead = FALSE
    /\ pending_data = <<>>
    /\ records = <<>>
    /\ source = "null"
    /\ pipe_handler = "once"
    /\ source_call = "none"
    /\ events = <<>>
    /\ input \in Inputs
    /\ pos = 0
    /\ hist = <<>>
    /\ fresh = TRUE
    /\ end_called = FALSE
    /\ last = [op |-> "new", arg |-> "none", ret |-> "none",
               thrown |-> "none", delivered |-> 0, paused_at |-> 0]

\* Offsets in the producer's bytes: where the k-th record ends and starts.
RECURSIVE RecordEnd(_)
RecordEnd(k) == IF k = 0 THEN 0 ELSE RecordEnd(k - 1) + Len(input[k])

RecordStart(k) == RecordEnd(k - 1)

\* Number of records whose last byte is among the first p bytes.
NComplete(p) == Cardinality({k \in 1..Len(input) : RecordEnd(k) <= p})

\* The offsets at which the producer cuts its bytes into chunks in Spec:
\* inside a header, after a header, after a record.
Cuts ==
    UNION { {RecordStart(k) + 5, RecordStart(k) + HeaderLen, RecordEnd(k)} :
            k \in 1..Len(input) }

\* The chunk arguments a call may get: nothing (-1), an empty chunk, or the
\* next n bytes of the producer's input.
NoBytes == IF Len(pending_data) < MaxPending THEN {-1, 0} ELSE {-1}

CutSizes == NoBytes \cup {c - pos : c \in {x \in Cuts : x > pos}}

AnySizes == 1..(RecordEnd(Len(input)) - pos)

Arg(n) ==
    IF n < 0 THEN Absent
    ELSE IF n = 0 THEN Chunk(<<>>)
    ELSE Chunk(SubSeq(Tape, pos + 1, pos + n))

\* The consumer's choices in a call that hands over n bytes: it calls pause()
\* inside one of the deliveries the call can make, or in none of them (0).
BytesOf(n) == IF n > 0 THEN n ELSE 0

PauseChoices(n) ==
    IF is_sending
    THEN 0..(Len(records) + NComplete(pos + BytesOf(n)) - NComplete(pos))
    ELSE {0}

\* A run stays `fresh` while it consists of non-empty writes alone, the
\* consumer never pauses, and it is the first write or the bytes written
\* stay within the first record.
StaysFresh(n, s) ==
    /\ fresh
    /\ n > 0
    /\ s.is_sending
    /\ hist = <<>> \/ pos + n <= Len(input[1])

Write(n, pauseAt) ==
    LET s == write(Self, Arg(n), pauseAt)
    IN  /\ Commit(s)
        /\ pos' = pos + BytesOf(n)
        /\ fresh' = StaysFresh(n, s)
        /\ hist' = IF StaysFresh(n, s) THEN Append(hist, n) ELSE <<>>
        /\ last' = Call("write", "none",
                        IF WriteThrown(s) /= "none" THEN "none"
                        ELSE IF WriteResult(s) THEN "true" ELSE "false",
                        WriteThrown(s), s)
        /\ UNCHANGED <<input, end_called>>

End(n, pauseAt) ==
    LET s == end(Self, Arg(n), pauseAt)
    IN  /\ Signals < MaxSignals
        /\ Commit(s)
        /\ pos' = pos + BytesOf(n)
        /\ fresh' = FALSE
        /\ hist' = <<>>
        /\ end_called' = TRUE
        /\ last' = Call("end", "none", "none", EndThrown(s), s)
        /\ UNCHANGED input

Pause ==
    /\ Commit(pause(Self))
    /\ fresh' = FALSE
    /\ hist' = <<>>
    /\ last' = Call("pause", "none", "none", "none", Self)
    /\ UNCHANGED <<input, pos, end_called>>

Resume(pauseAt) ==
    /\ Commit(resume(Self, pauseAt))
    /\ fresh' = FALSE
    /\ hist' = <<>>
    /\ last' = Call("resume", "none", "none", "none", resume(Self, pauseAt))
    /\ UNCHANGED <<input, pos, end_called>>

Destroy ==
    /\ Commit(destroy(Self))
    /\ fresh' = FALSE
    /\ hist' = <<>>
    /\ last' = Call("destroy", "none", "none", "none", Self)
    /\ UNCHANGED <<input, pos, end_called>>

\* A producer is piped into the stream: the 'pipe' event.
Pipe(src) ==
    /\ pipe_handler = "once" \/ Signals < MaxSignals
    /\ Commit(on_pipe(Self, src))
    /\ fresh' = FALSE
    /\ hist' = <<>>
    /\ last' = Call("pipe", src, "none", "none", Self)
    /\ UNCHANGED <<input, pos, end_called>>

Next ==
    \/ \E n \in CutSizes : \E p \in PauseChoices(n) : Write(n, p)
    \/ \E n \in CutSizes : \E p \in PauseChoices(n) : End(n, p)
    \/ Pause
    \/ \E p \in 0..Len(records) : Resume(p)
    \/ Destroy
    \/ \E src \in Producers : Pipe(src)

Spec == Init /\ [][Next]_vars

\* The framing alone: the producer's bytes written in chunks of any sizes,
\* empty ones too, to an instance on which nothing else is called.
ChunkSizes == AnySizes \cup (IF Len(pending_data) < MaxPending THEN {0} ELSE {})

NextChunks == \E n \in ChunkSizes : Write(n, 0)

SpecChunks == Init /\ [][NextChunks]_vars

----------------------------------------------------------------------------
(* Properties *)

IsPrefix(a, b) == Len(a) <= Len(b) /\ a = SubSeq(b, 1, Len(a))

\* The instance as the constructor leaves it.
NewSelf ==
    [readable |-> TRUE, writable |-> TRUE, is_ending |-> FALSE,
     is_sending |-> TRUE, is_dead |-> FALSE, pending_data |-> <<>>,
     records |-> <<>>, source |-> "null", pipe_handler |-> "once",
     source_call |-> "none", events |-> <<>>, thrown |-> "none",
     paused_in |-> 0]

\* C1: the records delivered to the consumer are, in order, a prefix of the
\* records of the input in the order of their bytes: none is delivered out
\* of order, twice, or ahead of an earlier one.
C1_DeliveredInInputOrder == IsPrefix(Delivered(events), input)

\* A resume() that has delivered two different queued records.
C1_Witness ==
    /\ last.op = "resume"
    /\ last.delivered >= 2
    /\ Delivered(events)[1] /= Delivered(events)[2]

\* C2: the bytes of a record written to a new instance in non-empty chunks
\* of any sizes deliver nothing before the last chunk, and with the last
\* chunk exactly what the same bytes written as one chunk deliver: that one
\* record.
C2_ChunkBoundaryIndependence ==
    (fresh /\ hist /= <<>> /\ pos <= RecordEnd(1)) =>
        IF pos = RecordEnd(1)
        THEN /\ events = write(NewSelf, Chunk(input[1]), 0).events
             /\ events = <<DataEvent(input[1])>>
        ELSE events = <<>>

\* A record with payload and padding that was written one byte at a time.
C2_Witness ==
    /\ fresh
    /\ pos = RecordEnd(1)
    /\ Len(hist) = pos
    /\ pos > HeaderLen
    /\ events = <<DataEvent(input[1])>>

\* C3: N >= 1 records written as one chunk to a new instance are delivered
\* by that write() call, all N of them, in order and byte for byte, and no
\* byte stays pending.
C3_MultiRecordRoundTrip ==
    (fresh /\ Len(hist) = 1 /\ pos = RecordEnd(NComplete(pos))) =>
        /\ events = [i \in 1..NComplete(pos) |-> DataEvent(input[i])]
        /\ last.delivered = NComplete(pos)
        /\ pending_data = <<>>
        /\ records = <<>>

\* The whole input, whose first record has padding, written as one chunk.
C3_Witness ==
    /\ fresh
    /\ Len(hist) = 1
    /\ pos = Len(Tape)
    /\ Len(input[1]) > HeaderLen
    /\ last.delivered = Len(input)
    /\ Len(input) >= 2

\* The records of the input that a call handing over the bytes from offset
\* p to offset q completes.
Completed(p, q) == SubSeq(input, NComplete(p) + 1, NComplete(q))

\* While the gate is closed nothing is delivered, and a write() still
\* queues the records it completes.
C4_HeldWhilePaused ==
    /\ (~is_sending /\ last'.op /= "resume")
           => Delivered(events') = Delivered(events)
    /\ (~is_sending /\ last'.op = "write")
           => records' = records \o Completed(pos, pos')

\* C4 as claimed: no delivery between pause() and the next resume(), while
\* write() keeps queueing; the next resume() delivers all queued records,
\* in order, before it returns.
C4_Original ==
    [][/\ C4_HeldWhilePaused
       /\ last'.op = "resume"
              => /\ Delivered(events') = Delivered(events) \o records
                 /\ records' = <<>>]_vars

\* C4 (amended): no delivery between pause() and the next resume(), while
\* write() keeps queueing; the next resume() delivers the queued records in
\* order before it returns: all of them, unless the consumer calls pause()
\* inside one of these deliveries, and then the records after that one stay
\* queued, in order.
C4_BackpressureHoldsDelivery ==
    [][/\ C4_HeldWhilePaused
       /\ last'.op = "resume"
              => \E k \in 0..Len(records) :
                    /\ Delivered(events') =
                           Delivered(events) \o SubSeq(records, 1, k)
                    /\ records' = SubSeq(records, k + 1, Len(records))
                    /\ k = Len(records) \/ (k >= 1 /\ ~is_sending')]_vars

\* A resume() that has delivered every record of the input, all queued
\* while the gate was closed.
C4_Witness ==
    /\ last.op = "resume"
    /\ last.delivered = Len(input)
    /\ records = <<>>
    /\ is_sending

\* C5: in a call that signals the end of the stream, the queue of completed
\* records is empty and the gate is open when the signal is sent.
C5_EndOnlyWhenDrainedAndSending ==
    [][Count(events', "end") > Count(events, "end")
          => is_sending' /\ records' = <<>>]_vars

\* The end signal sent by a resume(), after the records queued while the
\* gate was closed: end() had been called while paused.
C5_Witness ==
    /\ last.op = "resume"
    /\ last.delivered >= 1
    /\ events[Len(events)].ev = "end"

\* C6: every delivery of a record precedes the end signal: once the end
\* signal is sent, no record is delivered.
C6_NoDataAfterEnd ==
    \A i, j \in 1..Len(events) :
        (i < j /\ events[i].ev = "end") => events[j].ev /= "data"

\* C7: the end signal is sent at most once, and the instance is not
\* readable after it.
C7_EndAtMostOnce ==
    /\ Count(events, "end") <= 1
    /\ Count(events, "end") >= 1 => ~readable

\* C8: the first attachment binds the producer and signals no error; every
\* later one signals an error that carries the bound producer, clears
\* readable and writable, and leaves the bound producer as it is.
C8_SourceBinding ==
    [][/\ last'.op = "pipe" =>
            IF source = "null"
            THEN /\ source' = last'.arg
                 /\ events' = events
                 /\ readable' = readable
                 /\ writable' = writable
            ELSE /\ events' = Append(events, ErrorEvent(source))
                 /\ ~readable'
                 /\ ~writable'
       /\ source /= "null" => source' = source]_vars

\* Producer p2 rejected by an instance bound to producer p1.
C8_Witness ==
    /\ last.op = "pipe"
    /\ last.arg = "p2"
    /\ source = "p1"
    /\ events /= <<>>
    /\ events[Len(events)] = ErrorEvent("p1")

\* C9: after an error signal, neither a record nor the end signal is sent.
C9_NothingAfterError ==
    \A i, j \in 1..Len(events) :
        (i < j /\ events[i].ev = "error") => events[j].ev = "error"

\* The error state: an error has been signalled, and the instance is
\* neither readable nor writable.
InErrorState == Count(events, "error") > 0 /\ ~readable /\ ~writable

\* C10: a write() call made in the error state returns false and raises
\* nothing.
C10_WriteFailsAfterError ==
    [][(InErrorState /\ last'.op = "write")
          => last'.ret = "false" /\ last'.thrown = "none"]_vars

\* C11: once destroy() has been called, no call delivers a record or the
\* end signal, and none changes the pending chunks or the queue of
\* completed records.
C11_NothingAfterDestroy ==
    [][is_dead =>
          /\ Count(events', "data") = Count(events, "data")
          /\ Count(events', "end") = Count(events, "end")
          /\ pending_data' = pending_data
          /\ records' = records]_vars

\* C12: a write() call returns true if end() has not been called before it,
\* and false if it has.
C12_WriteFlowHint ==
    [][last'.op = "write" =>
          (last'.ret = IF end_called THEN "false" ELSE "true")]_vars

\* C13: an end() call whose final extraction leaves bytes pending signals
\* an error to the consumer and does not signal the end of the stream.
C13_LeftoverDataIsAnError ==
    [][(last'.op = "end" /\ PendingBytes(pending_data') > 0) =>
          /\ Count(events', "error") > Count(events, "error")
          /\ Count(events', "end") = Count(events, "end")]_vars

\* C14: the records delivered, the records queued and the pending chunks,
\* in this order, are together the bytes handed over so far: no byte is
\* dropped, duplicated or moved.
C14_ByteConservation ==
    Flatten(Delivered(events)) \o Flatten(records) \o Flatten(pending_data)
        = SubSeq(Tape, 1, pos)

\* A first chunk that ends inside the second record: it was split, and its
\* remainder is the pending chunk.
C14_Witness ==
    /\ fresh
    /\ Len(hist) = 1
    /\ pos = RecordEnd(1) + 5
    /\ Len(Delivered(events)) = 1
    /\ pending_data = <<SubSeq(Tape, RecordEnd(1) + 1, pos)>>

\* The length a record states in its own header: 8, the big-endian 16-bit
\* value of its bytes 4-5 and its byte 6.
StatedLength(rec) == 8 + 256 * rec[5] + rec[6] + rec[7]

WellFormed(rec) == Len(rec) >= 8 /\ Len(rec) = StatedLength(rec)

\* C15: every record queued or delivered has exactly the length its own
\* header states.
C15_NoPartialRecord ==
    /\ \A i \in 1..Len(records) : WellFormed(records[i])
    /\ \A i \in 1..Len(events) :
           events[i].ev = "data" => WellFormed(events[i].rec)

\* A record with payload and padding in the queue, built from a header
\* chunk and a later chunk.
C15_Witness ==
    /\ records /= <<>>
    /\ Len(records[1]) > HeaderLen
    /\ last.op = "write"
    /\ ~is_sending

\* The call of this step has delivered every record that was queued or that
\* it completed, and then signalled the end of the stream, once.
EndedNow ==
    /\ Delivered(events') =
           Delivered(events) \o records \o Completed(pos, pos')
    /\ records' = <<>>
    /\ Count(events', "end") = Count(events, "end") + 1
    /\ events'[Len(events')] = EndEvent

C17_HeaderFromWholeFrontChunk == last.thrown /= "RangeError"

\* The first record delivered by a write() that completed it, an empty chunk
\* having been written before it.
C17_Witness ==
    /\ ~fresh
    /\ pos = RecordEnd(1)
    /\ last.op = "write"
    /\ last.delivered = 1

\* C18: when the consumer calls pause() inside a delivery, the call delivers
\* no record after that one and no end of the stream, and the records not
\* delivered stay queued in their order; nothing is delivered and no end is
\* signalled by later calls other than resume().
C18_ReentrantPause ==
    [][/\ last'.paused_at >= 1
              => LET all == records \o Completed(pos, pos')
                     k == last'.paused_at
                 IN  /\ Delivered(events') =
                            Delivered(events) \o SubSeq(all, 1, k)
                     /\ records' = SubSeq(all, k + 1, Len(all))
                     /\ Count(events', "end") = Count(events, "end")
                     /\ ~is_sending'
       /\ (~is_sending /\ last'.op /= "resume")
              => /\ Count(events', "data") = Count(events, "data")
                 /\ Count(events', "end") = Count(events, "end")
                 /\ IsPrefix(records, records')]_vars

\* The consumer paused inside the first delivery of a resume() while the end
\* of the stream was due: a record is still queued and the end still due.
C18_Witness ==
    /\ last.op = "resume"
    /\ last.paused_at = 1
    /\ last.delivered = 1
    /\ Len(records) >= 1
    /\ is_ending
    /\ ~is_sending

\* C19: between calls, if sending is true the queue of completed records is
\* empty.
C19_QueueEmptyWhileSending == is_sending => records = <<>>

\* A write() that completed two records and delivered both.
C19_Witness ==
    /\ last.op = "write"
    /\ last.delivered = 2
    /\ is_sending
    /\ records = <<>>

\* C20: no write(), end(), pause(), resume() or destroy() call raises an
\* exception, end() with bytes left pending included.
C20_CallsReturnNormally ==
    last.op \in {"write", "end", "pause", "resume", "destroy"}
        => last.thrown = "none"

====
